---------------------------- MODULE Spec2Model ----------------------------
(***************************************************************************)
(* State-machine model of the social backend: the account application      *)
(* (registration, e-mail verification, resend, password login, Google      *)
(* login) and the post application (create, update, interactions).         *)
(*                                                                         *)
(* Database tables are sequences of rows indexed by primary key; a request *)
(* handler is one action, which also records the response it returns in    *)
(* the variable resp.                                                      *)
(***************************************************************************)
EXTENDS Integers, Sequences, FiniteSets, TLC

VARIABLES
    users,      \* account_user rows, indexed by id
    profiles,   \* ids of the users that have a UserProfile row
    tokens,     \* EmailVerificationToken rows, indexed by the uuid drawn
    now,        \* timezone.now(), in hours
    resp,       \* the request last served and its response
    posts,      \* post_post rows, indexed by id
    likes,      \* post_like rows: pairs <<user, post>>
    shares,     \* post_share rows: [user, post, share_text]
    comments,   \* post_comment rows, indexed by id
    inflight    \* the resend requests being served, by worker

acctvars == <<users, profiles, tokens, now, inflight>>

socialvars == <<likes, shares, comments>>

postvars == <<posts, likes, shares, comments>>

vars ==
    <<users, profiles, tokens, now, resp, posts, likes, shares, comments,
      inflight>>

-----------------------------------------------------------------------------
(* Bounds of the model *)

MaxUsers == 2

MaxTokens == 2

MaxTime == 25

MaxPosts == 2

MaxWorkers == 3

(* Program constants *)

TOKEN_HOURS == 24

-----------------------------------------------------------------------------
(* Request inputs *)

Emails == {"ann@x.com", "bob@x.com"}

BadEmail == "invalid-email"

Usernames == {"ann", "bob"}

Passwords == {"pw1", "pw2"}

\* the password of the accounts registered in the model
RegisterPasswords == {"pw1"}

\* the password GoogleAuthView draws with secrets.choice: no client knows it
RandomPassword == "random12"

GoogleSubs == {"g1", "g2"}

GivenNames == {"", "John"}

FamilyNames == {"Doe"}

Issuers == {"accounts.google.com", "malicious.com"}

BadUuid == 0

\* email.split('@')[0]
LocalPart(email) ==
    CASE email = "ann@x.com" -> "ann"
      [] email = "bob@x.com" -> "bob"
      [] OTHER -> "user"

-----------------------------------------------------------------------------
(* Rows and queries *)

UserIds == 1..Len(users)

TokenIds == 1..Len(tokens)

\* User.objects.filter(email=email)
UsersByEmail(email) == {u \in UserIds : users[u].email = email}

UsersByUsername(username) == {u \in UserIds : users[u].username = username}

\* google_id is unique=True, null=True: only non-null values collide
GoogleIdTaken(gid, except) ==
    gid # "" /\ \E u \in UserIds \ {except} : users[u].google_id = gid

LiveTokens == {t \in TokenIds : ~tokens[t].deleted}

\* EmailVerificationToken.objects.filter(user=user, is_used=False)
UnusedIn(toks, u) ==
    {t \in 1..Len(toks) : ~toks[t].deleted /\ toks[t].user = u /\ ~toks[t].is_used}

UnusedTokens_none(u) == {}

UnusedTokens(u) == UnusedIn(tokens, u)

is_expired_never(row) == FALSE

\* a token that expires at its deadline already
is_expired_at_deadline(row) == now >= row.expires_at

is_expired(row) == now > row.expires_at

\* EmailVerificationToken.save: a row saved without expires_at gets now + 24 h
NewToken(u) ==
    [user |-> u, created_at |-> now, expires_at |-> now + TOKEN_HOURS,
     is_used |-> FALSE, deleted |-> FALSE]

NewUser(username, email, password, first, last, verified, gid) ==
    [username |-> username, email |-> email, password |-> password,
     first_name |-> first, last_name |-> last,
     is_email_verified |-> verified, google_id |-> gid]

NoReq == [none |-> TRUE]

Response(op, req, status, msg) ==
    [op |-> op, req |-> req, status |-> status, msg |-> msg,
     jwt_user |-> 0, body |-> NoReq, sends |-> <<>>, mails |-> <<>>]

Idle == Response("idle", NoReq, 0, "")

\* the server processes that can serve a request at the same time
Workers == 1..MaxWorkers

\* a worker that serves no request
NoRequest == [pc |-> "idle", email |-> "", user |-> 0, token |-> 0]

NoRequests == [w \in Workers |-> NoRequest]


-----------------------------------------------------------------------------
(* account/utils.py *)

\* outcomes of the template rendering and of the Mailtrap API call
ApiOutcomes == {"ok", "failed", "template_error"}

MAIL_TO == "engrisaac1234@gmail.com"

\* get_or_create of the user's unused token, renewal of an expired one, then
\* the mail; returns the token table, the token mailed and the result
send_verification_email_with_api(toks, u, urow, api) ==
    LET unused == UnusedIn(toks, u) IN
    IF Cardinality(unused) > 1
    THEN [raised |-> TRUE, tokens |-> toks, token |-> 0, ok |-> FALSE,
          mails |-> <<>>]
    ELSE
      LET created == unused = {}
          t0 == IF created THEN Len(toks) + 1 ELSE CHOOSE t \in unused : TRUE
          toks1 == IF created THEN Append(toks, NewToken(u)) ELSE toks
          renew == ~created /\ is_expired(toks1[t0])
          toks2 == IF renew
                   THEN Append([toks1 EXCEPT ![t0].deleted = TRUE], NewToken(u))
                   ELSE toks1
          tok == IF renew THEN Len(toks2) ELSE t0
      IN [raised |-> FALSE, tokens |-> toks2, token |-> tok,
          ok |-> (api = "ok"),
          mails |-> IF api = "template_error" THEN <<>>
                    ELSE <<[to |-> MAIL_TO, name |-> urow.username,
                            url_token |-> tok]>>]

-----------------------------------------------------------------------------
(* account/serializers.py, account/views.py *)

RegisterSerializer_create_no_profile(username, email, password, api) ==
    LET u == Len(users) + 1
        urow == NewUser(username, email, password, "", "", FALSE, "")
        r == send_verification_email_with_api(tokens, u, urow, api)
    IN /\ users' = Append(users, urow)
       /\ profiles' = profiles
       /\ tokens' = r.tokens
       /\ resp' = [Response("register",
                            [username |-> username, email |-> email], 201,
                            "registration_successful")
                     EXCEPT !.sends = <<u>>, !.mails = r.mails,
                            !.body = [email |-> email]]

\* RegisterSerializer.create: create_user, profile, verification mail
RegisterSerializer_create(username, email, password, api) ==
    LET u == Len(users) + 1
        urow == NewUser(username, email, password, "", "", FALSE, "")
        r == send_verification_email_with_api(tokens, u, urow, api)
    IN /\ users' = Append(users, urow)
       /\ profiles' = profiles \cup {u}
       /\ tokens' = r.tokens
       /\ resp' = [Response("register",
                            [username |-> username, email |-> email], 201,
                            "registration_successful")
                     EXCEPT !.sends = <<u>>, !.mails = r.mails,
                            !.body = [email |-> email]]

RegisterView_create(username, email, password, api) ==
    IF \/ email = BadEmail
       \/ UsersByEmail(email) # {}
       \/ UsersByUsername(username) # {}
    THEN /\ resp' = Response("register",
                             [username |-> username, email |-> email], 400,
                             "invalid")
         /\ UNCHANGED <<users, profiles, tokens>>
    ELSE /\ Len(users) < MaxUsers
         /\ Len(tokens) < MaxTokens
         /\ RegisterSerializer_create(username, email, password, api)

MarkUsed_forgotten(toks, t) == toks

\* token.is_used = True; token.save()
MarkUsed(toks, t) == [toks EXCEPT ![t].is_used = TRUE]

AlreadyVerified_unchecked(token_uuid) == FALSE

\* the second lookup, by uuid alone: a token, used or not, of a verified user
AlreadyVerified(token_uuid) ==
    /\ token_uuid \in LiveTokens
    /\ users[tokens[token_uuid].user].is_email_verified

EmailVerificationView_post(token_uuid) ==
    LET req == [token |-> token_uuid] IN
    IF token_uuid = BadUuid
    THEN \* the ValidationError of is_valid is caught by `except Exception`
         /\ resp' = Response("verify", req, 500, "error_occurred")
         /\ UNCHANGED <<users, profiles, tokens>>
    ELSE IF token_uuid \in LiveTokens /\ ~tokens[token_uuid].is_used
    THEN LET token == tokens[token_uuid]
             user == token.user
         IN IF is_expired(token)
            THEN /\ resp' = Response("verify", req, 400, "token_expired")
                 /\ UNCHANGED <<users, profiles, tokens>>
            ELSE IF users[user].is_email_verified
            THEN /\ tokens' = MarkUsed(tokens, token_uuid)
                 /\ resp' = Response("verify", req, 200, "already_verified")
                 /\ UNCHANGED <<users, profiles>>
            ELSE /\ users' = [users EXCEPT ![user].is_email_verified = TRUE]
                 /\ tokens' = MarkUsed(tokens, token_uuid)
                 /\ resp' = Response("verify", req, 200, "verified")
                 /\ UNCHANGED profiles
    ELSE /\ IF AlreadyVerified(token_uuid)
            THEN resp' = Response("verify", req, 200, "already_verified")
            ELSE resp' = Response("verify", req, 400, "invalid_or_expired")
         /\ UNCHANGED <<users, profiles, tokens>>

ResendVerificationView_post(email, api) ==
    LET req == [email |-> email] IN
    IF email = BadEmail
    THEN /\ resp' = Response("resend", req, 400, "invalid")
         /\ UNCHANGED <<users, profiles, tokens>>
    ELSE IF UsersByEmail(email) = {}
    THEN /\ resp' = Response("resend", req, 404, "user_does_not_exist")
         /\ UNCHANGED <<users, profiles, tokens>>
    ELSE LET u == CHOOSE x \in UsersByEmail(email) : TRUE IN
         IF users[u].is_email_verified
         THEN /\ resp' = Response("resend", req, 200, "already_verified")
              /\ UNCHANGED <<users, profiles, tokens>>
         ELSE LET kept == [t \in TokenIds |->
                             IF t \in UnusedTokens(u)
                             THEN [tokens[t] EXCEPT !.deleted = TRUE]
                             ELSE tokens[t]]
                  r == send_verification_email_with_api(kept, u, users[u], api)
              IN /\ Len(tokens) < MaxTokens
                 /\ tokens' = r.tokens
                 /\ resp' = [Response("resend", req,
                                      IF r.ok THEN 200 ELSE 500,
                                      IF r.ok THEN "email_sent"
                                      ELSE "failed_to_send")
                               EXCEPT !.sends = <<u>>, !.mails = r.mails]
                 /\ UNCHANGED <<users, profiles>>

\* django.contrib.auth.authenticate: the user of that name when the password
\* matches, 0 otherwise
authenticate(username, password) ==
    LET hit == {u \in UsersByUsername(username) : users[u].password = password}
    IN IF hit = {} THEN 0 ELSE CHOOSE u \in hit : TRUE

UserBody(u, full_name) ==
    [email |-> users'[u].email, first_name |-> users'[u].first_name,
     last_name |-> users'[u].last_name, name |-> full_name,
     is_email_verified |-> users'[u].is_email_verified]

LoginBlocked_never(user) == FALSE

\* `if not user.is_email_verified`: the login is refused before the password
\* is looked at
LoginBlocked(user) == ~users[user].is_email_verified

login_view(email, password) ==
    LET req == [email |-> email, password |-> password] IN
    /\ UNCHANGED <<users, profiles, tokens>>
    /\ IF email = "" \/ password = ""
       THEN resp' = Response("login", req, 400, "email_and_password_required")
       ELSE IF UsersByEmail(email) = {}
       THEN resp' = Response("login", req, 401, "invalid_email_or_password")
       ELSE LET user == CHOOSE x \in UsersByEmail(email) : TRUE IN
            IF LoginBlocked(user)
            THEN resp' = Response("login", req, 401, "verify_email")
            ELSE IF authenticate(users[user].username, password) # 0
            THEN resp' = [Response("login", req, 200, "ok")
                            EXCEPT !.jwt_user = user,
                                   !.body = UserBody(user, "")]
            ELSE resp' = Response("login", req, 401, "invalid_email_or_password")

\* TokenObtainPairSerializer.validate, then the verified-email check
CustomTokenObtainPairSerializer_validate(username, password) ==
    LET req == [username |-> username, password |-> password]
        user == authenticate(username, password)
    IN /\ UNCHANGED <<users, profiles, tokens>>
       /\ IF user = 0
          THEN resp' = Response("token_obtain", req, 401, "no_active_account")
          ELSE IF ~users[user].is_email_verified
          THEN resp' = Response("token_obtain", req, 400, "verify_email")
          ELSE resp' = [Response("token_obtain", req, 200, "ok")
                          EXCEPT !.jwt_user = user]

\* dict.get(key, default)
DictGet(d, key, default) == IF key \in DOMAIN d THEN d[key] ELSE default

\* f"{given_name} {family_name}".strip()
FullName(given_name, family_name) ==
    IF given_name = "" THEN family_name
    ELSE IF family_name = "" THEN given_name
    ELSE given_name \o " " \o family_name

\* the identity tokens a client can present: garbage, or claims signed by an
\* issuer
GoogleTokens ==
    {[valid |-> FALSE]} \cup
    [valid : {TRUE}, iss : Issuers, email : Emails, given_name : GivenNames,
     family_name : FamilyNames, sub : GoogleSubs]

\* GoogleAuthSerializer.validate_token: verify_oauth2_token, issuer check, and
\* the dict handed to the view
GoogleAuthSerializer_validate_token(value) ==
    IF ~value.valid
    THEN [ok |-> FALSE, error |-> "invalid_google_token"]
    ELSE IF value.iss \notin {"accounts.google.com", "https://accounts.google.com"}
    THEN [ok |-> FALSE, error |-> "invalid_token_issuer"]
    ELSE [ok |-> TRUE,
          data |-> [email |-> value.email,
                    first_name |-> value.given_name,
                    last_name |-> value.family_name,
                    google_id |-> value.sub,
                    email_verified |-> TRUE]]

\* while User.objects.filter(username=username).exists(): append the counter
RECURSIVE UniqueUsername(_, _, _)
UniqueUsername(base_username, username, counter) ==
    IF UsersByUsername(username) = {} THEN username
    ELSE UniqueUsername(base_username, base_username \o ToString(counter),
                        counter + 1)

\* User.objects.create_user(..., is_email_verified=True, google_id=google_id)
create_google_user(username, email, first_name, last_name, google_id) ==
    NewUser(username, email, RandomPassword, first_name, last_name, TRUE,
            google_id)

GoogleAuthView_post(idtoken) ==
    LET req == [token |-> idtoken]
        v == GoogleAuthSerializer_validate_token(idtoken)
    IN
    IF ~v.ok
    THEN /\ resp' = Response("google", req, 400, v.error)
         /\ UNCHANGED <<users, profiles, tokens>>
    ELSE
      LET user_data == v.data
          email == DictGet(user_data, "email", "")
          given_name == DictGet(user_data, "given_name", "")
          family_name == DictGet(user_data, "family_name", "")
          google_id == DictGet(user_data, "google_id", "")
          username0 == IF email # "" THEN LocalPart(email) ELSE "user"
          full == FullName(given_name, family_name)
          full_name == IF full = "" THEN username0 ELSE full
          ok(user) == [Response("google", req, 200, "ok")
                         EXCEPT !.jwt_user = user,
                                !.body = UserBody(user, full_name)]
          failed == /\ resp' = Response("google", req, 500, "integrity_error")
                    /\ UNCHANGED <<users, profiles, tokens>>
      IN
      IF UsersByEmail(email) # {}
      THEN LET user == CHOOSE x \in UsersByEmail(email) : TRUE IN
           IF users[user].google_id = ""
           THEN \* link the Google account
                IF GoogleIdTaken(google_id, user)
                THEN failed
                ELSE /\ users' = [users EXCEPT
                         ![user].google_id = google_id,
                         ![user].is_email_verified = TRUE,
                         ![user].first_name =
                             IF @ = "" /\ given_name # "" THEN given_name ELSE @,
                         ![user].last_name =
                             IF @ = "" /\ family_name # "" THEN family_name ELSE @]
                     /\ resp' = ok(user)
                     /\ UNCHANGED <<profiles, tokens>>
           ELSE /\ UNCHANGED <<users, profiles, tokens>>
                /\ resp' = ok(user)
      ELSE \* create the user
           IF GoogleIdTaken(google_id, 0)
           THEN failed
           ELSE LET user == Len(users) + 1
                    username == UniqueUsername(username0, username0, 1)
                IN /\ Len(users) < MaxUsers
                   /\ users' = Append(users,
                         create_google_user(username, email, given_name,
                                            family_name, google_id))
                   /\ profiles' = profiles \cup {user}
                   /\ resp' = ok(user)
                   /\ UNCHANGED tokens

-----------------------------------------------------------------------------
(* The account application *)

\* the clock is observed when a token reaches its expiry and one hour later
TickSteps == {TOKEN_HOURS, TOKEN_HOURS + 1}

Tick(d) ==
    /\ now + d <= MaxTime
    /\ now' = now + d
    /\ resp' = Idle
    /\ UNCHANGED <<users, profiles, tokens, inflight, postvars>>

\* the database is empty, or holds what EmailVerificationViewTest sets up: an
\* unverified user with one token, which the test then marks used
Init ==
    /\ now = 0
    /\ resp = Idle
    /\ inflight = NoRequests
    /\ posts = <<>>
    /\ likes = {}
    /\ shares = {}
    /\ comments = <<>>
    /\ profiles = {}
    /\ \/ users = <<>> /\ tokens = <<>>
       \/ \E used \in BOOLEAN :
             /\ users = << NewUser("ann", "ann@x.com", "pw1", "", "", FALSE, "") >>
             /\ tokens = << [NewToken(1) EXCEPT !.is_used = used] >>

Next ==
    \/ \E d \in TickSteps : Tick(d)
    \/ \E username \in Usernames, email \in Emails \cup {BadEmail},
          password \in RegisterPasswords, api \in ApiOutcomes :
          /\ RegisterView_create(username, email, password, api)
          /\ UNCHANGED <<now, inflight, postvars>>
    \/ \E token_uuid \in {BadUuid} \cup (1..MaxTokens) :
          /\ EmailVerificationView_post(token_uuid)
          /\ UNCHANGED <<now, inflight, postvars>>
    \/ \E email \in Emails \cup {BadEmail}, api \in ApiOutcomes :
          /\ ResendVerificationView_post(email, api)
          /\ UNCHANGED <<now, inflight, postvars>>
    \/ \E email \in Emails \cup {""}, password \in Passwords \cup {""} :
          /\ login_view(email, password)
          /\ UNCHANGED <<now, inflight, postvars>>
    \/ \E username \in Usernames, password \in Passwords :
          /\ CustomTokenObtainPairSerializer_validate(username, password)
          /\ UNCHANGED <<now, inflight, postvars>>
    \/ \E idtoken \in GoogleTokens :
          /\ GoogleAuthView_post(idtoken)
          /\ UNCHANGED <<now, inflight, postvars>>

Spec == Init /\ [][Next]_vars

\* the database as the endpoints leave it: empty, or one registered user who
\* has not yet followed the verification link
InitApi ==
    /\ now = 0
    /\ resp = Idle
    /\ inflight = NoRequests
    /\ posts = <<>>
    /\ likes = {}
    /\ shares = {}
    /\ comments = <<>>
    /\ \/ users = <<>> /\ tokens = <<>> /\ profiles = {}
       \/ /\ users = << NewUser("ann", "ann@x.com", "pw1", "", "", FALSE, "") >>
          /\ tokens = << NewToken(1) >>
          /\ profiles = {1}

SpecApi == InitApi /\ [][Next]_vars

-----------------------------------------------------------------------------
(* account/views.py, account/utils.py: resend requests served at the same     *)
(* time. The database runs in autocommit mode, so every query of a request   *)
(* is a step of its own, and the steps of different workers interleave.      *)

Goto(w, pc) == [inflight EXCEPT ![w].pc = pc]

\* ResendVerificationView.post up to the delete: the serializer, the user
\* lookup and the is_email_verified check
Resend_begin(w, email) ==
    LET req == [email |-> email] IN
    /\ inflight[w].pc = "idle"
    /\ UNCHANGED tokens
    /\ IF email = BadEmail
       THEN /\ resp' = Response("resend", req, 400, "invalid")
            /\ inflight' = [inflight EXCEPT ![w].pc = "done", ![w].email = email]
       ELSE IF UsersByEmail(email) = {}
       THEN /\ resp' = Response("resend", req, 404, "user_does_not_exist")
            /\ inflight' = [inflight EXCEPT ![w].pc = "done", ![w].email = email]
       ELSE LET u == CHOOSE x \in UsersByEmail(email) : TRUE IN
            IF users[u].is_email_verified
            THEN /\ resp' = Response("resend", req, 200, "already_verified")
                 /\ inflight' = [inflight EXCEPT ![w].pc = "done",
                                                 ![w].email = email]
            ELSE /\ resp' = Idle
                 /\ inflight' = [inflight EXCEPT ![w].pc = "delete",
                                                 ![w].email = email,
                                                 ![w].user = u]

\* EmailVerificationToken.objects.filter(user=user, is_used=False).delete()
Resend_delete(w) ==
    /\ inflight[w].pc = "delete"
    /\ tokens' = [t \in TokenIds |->
                     IF t \in UnusedTokens(inflight[w].user)
                     THEN [tokens[t] EXCEPT !.deleted = TRUE]
                     ELSE tokens[t]]
    /\ resp' = Idle
    /\ inflight' = Goto(w, "get")

\* the get of get_or_create(user=user, is_used=False), and is_expired on the
\* row it found; more than one row raises MultipleObjectsReturned, which the
\* view does not catch
get_or_create_get(w) ==
    LET unused == UnusedTokens(inflight[w].user) IN
    /\ inflight[w].pc = "get"
    /\ UNCHANGED tokens
    /\ IF unused = {}
       THEN /\ resp' = Idle
            /\ inflight' = Goto(w, "create")
       ELSE IF Cardinality(unused) > 1
       THEN /\ resp' = Response("resend", [email |-> inflight[w].email],
                                500, "multiple_objects_returned")
            /\ inflight' = Goto(w, "done")
       ELSE LET t == CHOOSE x \in unused : TRUE IN
            /\ resp' = Idle
            /\ inflight' = [inflight EXCEPT
                               ![w].token = t,
                               ![w].pc = IF is_expired(tokens[t])
                                         THEN "renew" ELSE "send"]

\* the create of get_or_create
get_or_create_create(w) ==
    /\ inflight[w].pc = "create"
    /\ tokens' = Append(tokens, NewToken(inflight[w].user))
    /\ resp' = Idle
    /\ inflight' = [inflight EXCEPT ![w].token = Len(tokens) + 1,
                                    ![w].pc = "send"]

\* token.delete() of the expired token
renew_delete(w) ==
    /\ inflight[w].pc = "renew"
    /\ tokens' = [tokens EXCEPT ![inflight[w].token].deleted = TRUE]
    /\ resp' = Idle
    /\ inflight' = Goto(w, "create")

\* the mail with the token's link, and the response of the view
Resend_send(w, api) ==
    /\ inflight[w].pc = "send"
    /\ UNCHANGED tokens
    /\ resp' = [Response("resend", [email |-> inflight[w].email],
                         IF api = "ok" THEN 200 ELSE 500,
                         IF api = "ok" THEN "email_sent" ELSE "failed_to_send")
                  EXCEPT !.sends = <<inflight[w].user>>,
                         !.mails = IF api = "template_error" THEN <<>>
                                   ELSE <<[to |-> MAIL_TO,
                                           name |-> users[inflight[w].user].username,
                                           url_token |-> inflight[w].token]>>]
    /\ inflight' = Goto(w, "done")

\* ann has registered and has not yet followed the verification link
InitRace ==
    /\ now = 0
    /\ resp = Idle
    /\ inflight = NoRequests
    /\ posts = <<>>
    /\ likes = {}
    /\ shares = {}
    /\ comments = <<>>
    /\ users = << NewUser("ann", "ann@x.com", "pw1", "", "", FALSE, "") >>
    /\ tokens = << NewToken(1) >>
    /\ profiles = {1}

NextRace ==
    \/ \E d \in TickSteps : Tick(d)
    \/ \E w \in Workers, email \in Emails \cup {BadEmail} :
          /\ Resend_begin(w, email)
          /\ UNCHANGED <<users, profiles, now, postvars>>
    \/ \E w \in Workers :
          /\ Resend_delete(w)
          /\ UNCHANGED <<users, profiles, now, postvars>>
    \/ \E w \in Workers :
          /\ get_or_create_get(w)
          /\ UNCHANGED <<users, profiles, now, postvars>>
    \/ \E w \in Workers :
          /\ get_or_create_create(w)
          /\ UNCHANGED <<users, profiles, now, postvars>>
    \/ \E w \in Workers :
          /\ renew_delete(w)
          /\ UNCHANGED <<users, profiles, now, postvars>>
    \/ \E w \in Workers, api \in ApiOutcomes :
          /\ Resend_send(w, api)
          /\ UNCHANGED <<users, profiles, now, postvars>>

SpecRace == InitRace /\ [][NextRace]_vars

-----------------------------------------------------------------------------
(* post/serializers.py: the request body of a post and its validation *)

\* a key the request body does not carry
Absent == "<absent>"

BlankText == "  "

ShortText == "Test post for workflow"

LongText == "Once upon a time there was a story long enough to pass the hundred character minimum of story posts."

Titles == {Absent, "", BlankText, "Test Post"}

Contents == {Absent, "", ShortText, LongText}

CONTENT_TYPE_CHOICES == {"post", "image", "video", "story", "workflow"}

STATUS_CHOICES == {"draft", "published", "archived"}

Files == {Absent, "file"}

WorkflowSteps == {Absent, "[step]"}

\* str.strip() on the texts of the model
Strip(text) == IF text = BlankText THEN "" ELSE text

\* data.get(key, default)
DataGet(data, key, default) ==
    IF data[key] = Absent THEN default ELSE data[key]

\* Python truthiness of a value looked up with data.get(key)
Truthy(data, key) == data[key] # Absent /\ data[key] # ""

\* PostListCreateView.get_serializer_class and the view's serializer_class:
\* the writable fields of the serializer that handles the request
SerializerFor(method, data) ==
    IF method # "POST" THEN "PostSerializer"
    ELSE LET content_type == DataGet(data, "content_type", "post") IN
         IF content_type = "story" THEN "StoryPostSerializer"
         ELSE IF content_type = "workflow" THEN "WorkflowPostSerializer"
         ELSE "PostCreateSerializer"

WritableFields(serializer) ==
    {"title", "content", "content_type", "image", "video", "workflow_steps"}
        \cup (IF serializer = "PostCreateSerializer" THEN {} ELSE {"status"})

\* Post.title and Post.content are declared without blank=True: the model
\* serializer requires both and refuses the blank string
RequiredFields == {"title", "content"}

\* run_validation of one field after trimming: TRUE when the field is accepted
FieldAccepted(data, key, partial) ==
    IF data[key] = Absent THEN partial \/ key \notin RequiredFields
    ELSE IF key \in RequiredFields THEN Strip(data[key]) # ""
    ELSE TRUE

\* validate_content: story content of fewer than 100 characters is refused
validate_content(data) ==
    LET value == Strip(DataGet(data, "content", "")) IN
    ~(/\ value # ""
      /\ DataGet(data, "content_type", "post") = "story"
      /\ Len(value) < 100)

\* to_internal_value: the fields the serializer reads, trimmed; a field it
\* does not declare is dropped
to_internal_value(serializer, data) ==
    [k \in DOMAIN data |->
        IF k \notin WritableFields(serializer) THEN Absent
        ELSE IF k \in RequiredFields /\ data[k] # Absent THEN Strip(data[k])
        ELSE data[k]]

auto_detect_user_first(validated_data) ==
    DataGet(validated_data, "content_type", "post")

auto_detect_content_type(validated_data) ==
    LET user_content_type == DataGet(validated_data, "content_type", "post")
        image == Truthy(validated_data, "image")
        video == Truthy(validated_data, "video")
        workflow_steps == Truthy(validated_data, "workflow_steps")
    IN IF user_content_type \in {"story", "workflow"} THEN user_content_type
       ELSE IF video THEN "video"
       ELSE IF image /\ user_content_type = "image" THEN "image"
       ELSE IF image /\ user_content_type \in {"post", "video"} THEN "image"
       ELSE IF ~image /\ workflow_steps THEN "workflow"
       ELSE user_content_type

PostSerializer_validate_skipped(data) == TRUE

\* PostSerializer.validate: the cross-field rules of the detected content type
PostSerializer_validate(data) ==
    LET content_type == auto_detect_content_type(data)
        image == Truthy(data, "image")
        video == Truthy(data, "video")
        title == DataGet(data, "title", "")
        content == DataGet(data, "content", "")
        workflow_steps == Truthy(data, "workflow_steps")
    IN CASE content_type = "video" -> video \/ image
         [] content_type = "image" -> image /\ Strip(title) # ""
         [] content_type = "story" ->
                Strip(title) # "" /\ Len(Strip(content)) >= 100
         [] content_type = "workflow" -> workflow_steps /\ Strip(title) # ""
         [] content_type = "post" ->
                ~(Strip(title) = "" /\ Strip(content) = "" /\ ~image /\ ~video)
         [] OTHER -> TRUE

\* StoryPostSerializer.validate and WorkflowPostSerializer.validate, after
\* super().validate has written the detected content type into data
SubclassValidate(serializer, data) ==
    LET content_type == auto_detect_content_type(data) IN
    CASE serializer = "StoryPostSerializer" /\ content_type = "story" ->
             Truthy(data, "title") /\ Len(DataGet(data, "content", "")) >= 100
      [] serializer = "WorkflowPostSerializer" /\ content_type = "workflow" ->
             Truthy(data, "workflow_steps")
      [] OTHER -> TRUE

\* serializer.is_valid()
is_valid(serializer, data, partial) ==
    /\ \A k \in WritableFields(serializer) : FieldAccepted(data, k, partial)
    /\ validate_content(data)
    /\ PostSerializer_validate(to_internal_value(serializer, data))
    /\ SubclassValidate(serializer, to_internal_value(serializer, data))

\* serializer.validated_data: the accepted fields, with the detected content
\* type written over the submitted one
validated_data(serializer, data) ==
    LET d == to_internal_value(serializer, data) IN
    [d EXCEPT !["content_type"] = auto_detect_content_type(d)]

-----------------------------------------------------------------------------
(* post/models.py, post/views.py *)

PostIds == 1..Len(posts)

LivePosts == {p \in PostIds : ~posts[p].deleted}

\* published_at is null
NoTime == -1

\* Post.save: published_at is set the first time a published post is saved
Post_save(row) ==
    [row EXCEPT !.published_at =
        IF row.status = "published" /\ @ = NoTime THEN now ELSE @]

PostSerializer_create_first_user(user, vd) ==
    Post_save([author |-> 1,
               title |-> DataGet(vd, "title", ""),
               content |-> DataGet(vd, "content", ""),
               content_type |-> DataGet(vd, "content_type", "post"),
               status |-> DataGet(vd, "status", "published"),
               image |-> DataGet(vd, "image", ""),
               video |-> DataGet(vd, "video", ""),
               workflow_steps |-> DataGet(vd, "workflow_steps", ""),
               published_at |-> NoTime,
               deleted |-> FALSE])

\* PostSerializer.create: the author is the requesting user; Post.objects.create
\* fills the model defaults of the fields the request left out
PostSerializer_create(user, vd) ==
    Post_save([author |-> user,
               title |-> DataGet(vd, "title", ""),
               content |-> DataGet(vd, "content", ""),
               content_type |-> DataGet(vd, "content_type", "post"),
               status |-> DataGet(vd, "status", "published"),
               image |-> DataGet(vd, "image", ""),
               video |-> DataGet(vd, "video", ""),
               workflow_steps |-> DataGet(vd, "workflow_steps", ""),
               published_at |-> NoTime,
               deleted |-> FALSE])

\* ModelSerializer.update: setattr for every validated field, then save
PostSerializer_update(row, vd) ==
    Post_save([k \in DOMAIN row |->
        IF k \in DOMAIN vd /\ k \in WritableFields("PostSerializer")
           /\ vd[k] # Absent
        THEN vd[k] ELSE row[k]])

\* permissions.IsAuthenticated
IsAuthenticated(user) == user \in UserIds

\* the permission classes of PostRetrieveUpdateDestroyView, and the object
\* check its get_object makes: IsAuthenticated, and none on the object
MayChange(user, row) == IsAuthenticated(user)

PostListCreateView_create(user, data) ==
    LET req == [user |-> user, data |-> data]
        serializer == SerializerFor("POST", data)
    IN
    IF ~IsAuthenticated(user)
    THEN /\ resp' = Response("post_create", req, 401, "not_authenticated")
         /\ UNCHANGED posts
    ELSE IF is_valid(serializer, data, FALSE)
    THEN /\ posts' = Append(posts,
                PostSerializer_create(user, validated_data(serializer, data)))
         /\ resp' = [Response("post_create", req, 201, "created")
                       EXCEPT !.body = [id |-> Len(posts) + 1]]
    ELSE /\ resp' = Response("post_create", req, 400, "invalid")
         /\ UNCHANGED posts

\* PATCH (partial) and PUT on the post detail endpoint
PostRetrieveUpdateDestroyView_update(user, p, data, partial) ==
    LET req == [user |-> user, post |-> p] IN
    IF ~IsAuthenticated(user)
    THEN /\ resp' = Response("post_update", req, 401, "not_authenticated")
         /\ UNCHANGED posts
    ELSE IF p \notin LivePosts
    THEN /\ resp' = Response("post_update", req, 404, "post_not_found")
         /\ UNCHANGED posts
    ELSE IF ~MayChange(user, posts[p])
    THEN /\ resp' = Response("post_update", req, 403, "forbidden")
         /\ UNCHANGED posts
    ELSE IF is_valid("PostSerializer", data, partial)
    THEN /\ posts' = [posts EXCEPT ![p] =
                PostSerializer_update(@, validated_data("PostSerializer", data))]
         /\ resp' = Response("post_update", req, 200, "updated")
    ELSE /\ resp' = Response("post_update", req, 400, "invalid")
         /\ UNCHANGED posts

\* on_delete=models.CASCADE of Like.post, Share.post and Comment.post: the
\* rows of the posts in gone leave with them
Cascade(gone) ==
    /\ likes' = {l \in likes : l[2] \notin gone}
    /\ shares' = {s \in shares : s.post \notin gone}
    /\ comments' = [c \in DOMAIN comments |->
                       IF comments[c].post \in gone
                       THEN [comments[c] EXCEPT !.deleted = TRUE]
                       ELSE comments[c]]

\* DELETE on the post detail endpoint
PostRetrieveUpdateDestroyView_destroy(user, p) ==
    LET req == [user |-> user, post |-> p] IN
    IF ~IsAuthenticated(user)
    THEN /\ resp' = Response("post_delete", req, 401, "not_authenticated")
         /\ UNCHANGED postvars
    ELSE IF p \notin LivePosts
    THEN /\ resp' = Response("post_delete", req, 404, "post_not_found")
         /\ UNCHANGED postvars
    ELSE IF ~MayChange(user, posts[p])
    THEN /\ resp' = Response("post_delete", req, 403, "forbidden")
         /\ UNCHANGED postvars
    ELSE /\ posts' = [posts EXCEPT ![p].deleted = TRUE]
         /\ Cascade({p})
         /\ resp' = Response("post_delete", req, 204, "deleted")

-----------------------------------------------------------------------------
(* The post application, over two registered users *)

\* the request bodies of the ownership scenarios: text posts
OwnerBodies ==
    [title : {Absent, "Test Post"}, content : {Absent, ShortText},
     content_type : {Absent}, image : {Absent}, video : {Absent},
     workflow_steps : {Absent}, status : {Absent, "draft", "published"},
     author : {Absent, "ann", "bob"}]

\* the request bodies of the content scenarios: every combination of fields
ContentBodies ==
    [title : Titles, content : Contents,
     content_type : {Absent} \cup CONTENT_TYPE_CHOICES,
     image : Files, video : Files, workflow_steps : WorkflowSteps,
     status : {Absent}, author : {Absent}]

\* the requesting client: anonymous (0) or a logged-in user
Requesters == 0..MaxUsers

InitPost ==
    /\ users = << NewUser("ann", "ann@x.com", "pw1", "", "", TRUE, ""),
                  NewUser("bob", "bob@x.com", "pw1", "", "", TRUE, "") >>
    /\ profiles = {1, 2}
    /\ tokens = <<>>
    /\ now = 0
    /\ resp = Idle
    /\ inflight = NoRequests
    /\ posts = <<>>
    /\ likes = {}
    /\ shares = {}
    /\ comments = <<>>

NextPost ==
    \/ \E user \in Requesters, data \in OwnerBodies :
          /\ Len(posts) < MaxPosts
          /\ PostListCreateView_create(user, data)
          /\ UNCHANGED <<acctvars, socialvars>>
    \/ \E user \in Requesters, p \in 1..MaxPosts, data \in OwnerBodies,
          partial \in BOOLEAN :
          /\ PostRetrieveUpdateDestroyView_update(user, p, data, partial)
          /\ UNCHANGED <<acctvars, socialvars>>
    \/ \E user \in Requesters, p \in 1..MaxPosts :
          /\ PostRetrieveUpdateDestroyView_destroy(user, p)
          /\ UNCHANGED acctvars

SpecPost == InitPost /\ [][NextPost]_vars

\* a content scenario: one logged-in user creates a post in the empty table
\* and then edits it
NextContent ==
    \/ \E data \in ContentBodies :
          /\ posts = <<>>
          /\ PostListCreateView_create(1, data)
          /\ UNCHANGED <<acctvars, socialvars>>
    \/ \E p \in PostIds, data \in ContentBodies, partial \in BOOLEAN :
          /\ PostRetrieveUpdateDestroyView_update(1, p, data, partial)
          /\ UNCHANGED <<acctvars, socialvars>>

SpecContent == InitPost /\ [][NextContent]_vars

-----------------------------------------------------------------------------
(* post/views.py: likes, shares and comments *)

\* rows the like, share and comment tables hold together
MaxRows == 2

Rows == Cardinality(likes) + Cardinality(shares) + Len(comments)

\* the primary keys a client can name: those of the table and one beyond it
PostKeys == 1..(MaxPosts + 1)

ShareTexts == {"", "Check this out!"}

CommentTexts == {BlankText, "Great post!"}

\* request.data.get('parent'): no parent, or the id of a comment
ParentKeys == 0..MaxRows

CommentIds == 1..Len(comments)

LiveComments == {c \in CommentIds : ~comments[c].deleted}

\* post.likes.count()
likes_count(ls, p) == Cardinality({l \in ls : l[2] = p})

\* post.shares.count()
shares_count(ss, p) == Cardinality({s \in ss : s.post = p})

LikeView_post_keep(user, pk) ==
    LET req == [user |-> user, post |-> pk] IN
    IF ~IsAuthenticated(user)
    THEN /\ resp' = Response("like", req, 401, "not_authenticated")
         /\ UNCHANGED likes
    ELSE IF pk \notin LivePosts
    THEN /\ resp' = Response("like", req, 404, "not_found")
         /\ UNCHANGED likes
    ELSE /\ likes' = likes \cup {<<user, pk>>}
         /\ resp' = [Response("like", req, 200,
                              IF <<user, pk>> \in likes THEN "unliked"
                              ELSE "liked")
                       EXCEPT !.body = [likes_count |-> likes_count(likes', pk)]]

\* LikeView.post: get_or_create of the like, deleted again when it existed
LikeView_post(user, pk) ==
    LET req == [user |-> user, post |-> pk] IN
    IF ~IsAuthenticated(user)
    THEN /\ resp' = Response("like", req, 401, "not_authenticated")
         /\ UNCHANGED likes
    ELSE IF pk \notin LivePosts
    THEN /\ resp' = Response("like", req, 404, "not_found")
         /\ UNCHANGED likes
    ELSE IF <<user, pk>> \notin likes
    THEN /\ Rows < MaxRows
         /\ likes' = likes \cup {<<user, pk>>}
         /\ resp' = [Response("like", req, 200, "liked")
                       EXCEPT !.body = [likes_count |-> likes_count(likes', pk)]]
    ELSE /\ likes' = likes \ {<<user, pk>>}
         /\ resp' = [Response("like", req, 200, "unliked")
                       EXCEPT !.body = [likes_count |-> likes_count(likes', pk)]]

ShareView_post_unchecked(user, pk, share_text) ==
    LET req == [user |-> user, post |-> pk, share_text |-> share_text] IN
    IF ~IsAuthenticated(user)
    THEN /\ resp' = Response("share", req, 401, "not_authenticated")
         /\ UNCHANGED shares
    ELSE /\ (\E s \in shares : s.user = user /\ s.post = pk) \/ Rows < MaxRows
         /\ shares' = {s \in shares : ~(s.user = user /\ s.post = pk)}
                        \cup {[user |-> user, post |-> pk,
                               share_text |-> share_text]}
         /\ resp' = [Response("share", req, 200, "shared")
                       EXCEPT !.body = [shares_count |-> shares_count(shares', pk)]]

\* ShareView.post: get_or_create of the share; the text of an existing share
\* is overwritten
ShareView_post(user, pk, share_text) ==
    LET req == [user |-> user, post |-> pk, share_text |-> share_text] IN
    IF ~IsAuthenticated(user)
    THEN /\ resp' = Response("share", req, 401, "not_authenticated")
         /\ UNCHANGED shares
    ELSE IF pk \notin LivePosts
    THEN /\ resp' = Response("share", req, 404, "not_found")
         /\ UNCHANGED shares
    ELSE /\ (\E s \in shares : s.user = user /\ s.post = pk) \/ Rows < MaxRows
         /\ shares' = {s \in shares : ~(s.user = user /\ s.post = pk)}
                        \cup {[user |-> user, post |-> pk,
                               share_text |-> share_text]}
         /\ resp' = [Response("share", req, 200, "shared")
                       EXCEPT !.body = [shares_count |-> shares_count(shares', pk)]]

\* CommentSerializer.is_valid: validate_text refuses a blank text, and the
\* 'parent' field refuses a key that is not the id of a comment
CommentSerializer_is_valid(text, parent) ==
    /\ Strip(text) # ""
    /\ parent # 0 => parent \in LiveComments

\* get_object_or_404(Comment, pk=parent_id, post=post)
ParentOnPost_unchecked(parent, pk) == TRUE

ParentOnPost(parent, pk) == comments[parent].post = pk

\* CreateModelMixin.create with CommentListCreateView.perform_create
CommentListCreateView_create(user, pk, text, parent) ==
    LET req == [user |-> user, post |-> pk, text |-> text, parent |-> parent]
    IN
    IF ~IsAuthenticated(user)
    THEN /\ resp' = Response("comment", req, 401, "not_authenticated")
         /\ UNCHANGED comments
    ELSE IF ~CommentSerializer_is_valid(text, parent)
    THEN /\ resp' = Response("comment", req, 400, "invalid")
         /\ UNCHANGED comments
    ELSE IF pk \notin LivePosts
    THEN /\ resp' = Response("comment", req, 404, "not_found")
         /\ UNCHANGED comments
    ELSE IF parent # 0 /\ ~ParentOnPost(parent, pk)
    THEN /\ resp' = Response("comment", req, 404, "not_found")
         /\ UNCHANGED comments
    ELSE /\ Rows < MaxRows
         /\ comments' = Append(comments,
                [user |-> user, post |-> pk, parent |-> parent,
                 text |-> Strip(text), deleted |-> FALSE])
         /\ resp' = [Response("comment", req, 201, "created")
                       EXCEPT !.body = [id |-> Len(comments) + 1]]

\* the fields of the post a test's setUp creates
FixtureBody ==
    [title |-> "Test Post", content |-> ShortText, content_type |-> Absent,
     image |-> Absent, video |-> Absent, workflow_steps |-> Absent,
     status |-> Absent, author |-> Absent]

\* what the view tests set up: two users, and a post of each
InitSocial ==
    /\ users = << NewUser("ann", "ann@x.com", "pw1", "", "", TRUE, ""),
                  NewUser("bob", "bob@x.com", "pw1", "", "", TRUE, "") >>
    /\ profiles = {1, 2}
    /\ tokens = <<>>
    /\ now = 0
    /\ resp = Idle
    /\ inflight = NoRequests
    /\ posts = << PostSerializer_create(1, FixtureBody),
                  PostSerializer_create(2, FixtureBody) >>
    /\ likes = {}
    /\ shares = {}
    /\ comments = <<>>

NextSocial ==
    \/ \E user \in Requesters, pk \in PostKeys :
          /\ LikeView_post(user, pk)
          /\ UNCHANGED <<acctvars, posts, shares, comments>>
    \/ \E user \in Requesters, pk \in PostKeys, share_text \in ShareTexts :
          /\ ShareView_post(user, pk, share_text)
          /\ UNCHANGED <<acctvars, posts, likes, comments>>
    \/ \E user \in Requesters, pk \in PostKeys, text \in CommentTexts,
          parent \in ParentKeys :
          /\ CommentListCreateView_create(user, pk, text, parent)
          /\ UNCHANGED <<acctvars, posts, likes, shares>>
    \/ \E user \in Requesters, p \in PostKeys :
          /\ PostRetrieveUpdateDestroyView_destroy(user, p)
          /\ UNCHANGED acctvars

SpecSocial == InitSocial /\ [][NextSocial]_vars

-----------------------------------------------------------------------------
(* post/views.py: bulk_delete_posts, bulk_update_status *)

\* request.data.get('post_ids', []): nothing, one key, or every key
PostIdLists == {{}} \cup {{p} : p \in PostKeys} \cup {PostKeys}

\* request.data.get('status', 'published')
NewStatuses == {Absent, "draft", "published", "archived", "deleted"}

\* a filter that forgets the author
OwnPosts_any_author(user, post_ids) == {p \in LivePosts : p \in post_ids}

\* Post.objects.filter(id__in=post_ids, author=request.user)
OwnPosts(user, post_ids) ==
    {p \in LivePosts : p \in post_ids /\ posts[p].author = user}

bulk_delete_posts(user, post_ids) ==
    LET req == [user |-> user, post_ids |-> post_ids] IN
    IF ~IsAuthenticated(user)
    THEN /\ resp' = Response("bulk_delete", req, 401, "not_authenticated")
         /\ UNCHANGED postvars
    ELSE IF post_ids = {}
    THEN /\ resp' = Response("bulk_delete", req, 400, "no_post_ids")
         /\ UNCHANGED postvars
    ELSE LET mine == OwnPosts(user, post_ids) IN
         /\ posts' = [p \in DOMAIN posts |->
                         IF p \in mine THEN [posts[p] EXCEPT !.deleted = TRUE]
                         ELSE posts[p]]
         /\ Cascade(mine)
         /\ resp' = [Response("bulk_delete", req, 200, "deleted")
                       EXCEPT !.body = [deleted_count |-> Cardinality(mine)]]

\* posts.update(status=new_status): the rows are written without Post.save
bulk_update_status(user, post_ids, status) ==
    LET req == [user |-> user, post_ids |-> post_ids, status |-> status]
        new_status == IF status = Absent THEN "published" ELSE status
    IN
    /\ UNCHANGED socialvars
    /\ IF ~IsAuthenticated(user)
       THEN /\ resp' = Response("bulk_status", req, 401, "not_authenticated")
            /\ UNCHANGED posts
       ELSE IF post_ids = {}
       THEN /\ resp' = Response("bulk_status", req, 400, "no_post_ids")
            /\ UNCHANGED posts
       ELSE IF new_status \notin STATUS_CHOICES
       THEN /\ resp' = Response("bulk_status", req, 400, "invalid_status")
            /\ UNCHANGED posts
       ELSE LET mine == OwnPosts(user, post_ids) IN
            /\ posts' = [p \in DOMAIN posts |->
                            IF p \in mine
                            THEN [posts[p] EXCEPT !.status = new_status]
                            ELSE posts[p]]
            /\ resp' = [Response("bulk_status", req, 200, "updated")
                          EXCEPT !.body = [updated_count |-> Cardinality(mine)]]

\* the create request of a workflow post kept as a draft
DraftBody ==
    [title |-> "Test Post", content |-> ShortText, content_type |-> "workflow",
     image |-> Absent, video |-> Absent, workflow_steps |-> "[step]",
     status |-> "draft", author |-> Absent]

\* the bodies of a PATCH that changes the status
StatusBodies ==
    [title : {"Test Post"}, content : {Absent}, content_type : {Absent},
     image : {Absent}, video : {Absent}, workflow_steps : {Absent},
     status : STATUS_CHOICES, author : {Absent}]

\* two users; ann has created a draft, bob a published post
InitBulk ==
    /\ users = << NewUser("ann", "ann@x.com", "pw1", "", "", TRUE, ""),
                  NewUser("bob", "bob@x.com", "pw1", "", "", TRUE, "") >>
    /\ profiles = {1, 2}
    /\ tokens = <<>>
    /\ now = 0
    /\ resp = Idle
    /\ inflight = NoRequests
    /\ is_valid(SerializerFor("POST", DraftBody), DraftBody, FALSE)
    /\ posts = << PostSerializer_create(1,
                      validated_data(SerializerFor("POST", DraftBody), DraftBody)),
                  PostSerializer_create(2, FixtureBody) >>
    /\ likes = {}
    /\ shares = {}
    /\ comments = <<>>

NextBulk ==
    \/ \E user \in Requesters, post_ids \in PostIdLists :
          /\ bulk_delete_posts(user, post_ids)
          /\ UNCHANGED acctvars
    \/ \E user \in Requesters, post_ids \in PostIdLists, status \in NewStatuses :
          /\ bulk_update_status(user, post_ids, status)
          /\ UNCHANGED acctvars
    \/ \E user \in Requesters, p \in PostKeys, data \in StatusBodies :
          /\ PostRetrieveUpdateDestroyView_update(user, p, data, TRUE)
          /\ UNCHANGED <<acctvars, socialvars>>

SpecBulk == InitBulk /\ [][NextBulk]_vars

-----------------------------------------------------------------------------
(* Properties of the account application, checked under Spec *)

\* the user a verification token was issued to
Owner(t) == tokens[t].user

\* C1: e-mail verification with a token that exists, is unused, is not expired
\* and belongs to an unverified user answers 200, and sets the user's
\* is_email_verified and the token's is_used.
C1_VerifySetsFlags ==
    [][\A t \in 1..MaxTokens :
         (/\ resp'.op = "verify"
          /\ resp'.req.token = t
          /\ t \in LiveTokens
          /\ ~tokens[t].is_used
          /\ now <= tokens[t].expires_at
          /\ ~users[Owner(t)].is_email_verified)
         => (/\ resp'.status = 200
             /\ users'[Owner(t)].is_email_verified
             /\ tokens'[t].is_used)]_vars

C1_Witness ==
    /\ resp.op = "verify"
    /\ resp.status = 200
    /\ resp.msg = "verified"
    /\ tokens[resp.req.token].is_used
    /\ users[Owner(resp.req.token)].is_email_verified

\* a password login for user u: login_view with u's e-mail and a password, or
\* the token-obtain serializer with u's username
LoginFor(u) ==
    \/ /\ resp.op = "login"
       /\ resp.req.email = users[u].email
       /\ resp.req.password # ""
    \/ /\ resp.op = "token_obtain"
       /\ resp.req.username = users[u].username

\* C2 as stated: every password login of an unverified user is answered with
\* the request to verify the e-mail, and carries no token pair.
C2_Original ==
    \A u \in UserIds :
        (~users[u].is_email_verified /\ LoginFor(u))
        => (resp.msg = "verify_email" /\ resp.jwt_user = 0)

\* C2 as amended: every password login of an unverified user is refused and
\* carries no token pair, whatever the password; login_view asks to verify
\* the e-mail for every password, the token-obtain serializer does so when
\* the password is right and reports bad credentials when it is wrong.
C2_UnverifiedLoginRefused ==
    \A u \in UserIds :
        (~users[u].is_email_verified /\ LoginFor(u))
        => /\ resp.status >= 400
           /\ resp.jwt_user = 0
           /\ resp.msg = IF \/ resp.op = "login"
                            \/ resp.req.password = users[u].password
                         THEN "verify_email" ELSE "no_active_account"

C2_Witness ==
    \E u \in UserIds :
        /\ ~users[u].is_email_verified
        /\ resp.op = "login"
        /\ resp.req.email = users[u].email
        /\ resp.req.password = users[u].password
        /\ resp.msg = "verify_email"
        /\ resp.jwt_user = 0

\* C5 as stated: e-mail verification with a used token answers 400 and changes
\* no user and no token.
C5_Original ==
    [][\A t \in 1..MaxTokens :
         (/\ resp'.op = "verify"
          /\ resp'.req.token = t
          /\ t \in LiveTokens
          /\ tokens[t].is_used)
         => (resp'.status = 400 /\ users' = users /\ tokens' = tokens)]_vars

\* C5 as amended: e-mail verification with a used token changes no user and no
\* token; it answers 400 (invalid token) when the token's user is not
\* verified, and 200 (already verified) when the user is verified.
C5_UsedTokenChangesNothing ==
    [][\A t \in 1..MaxTokens :
         (/\ resp'.op = "verify"
          /\ resp'.req.token = t
          /\ t \in LiveTokens
          /\ tokens[t].is_used)
         => /\ users' = users
            /\ tokens' = tokens
            /\ IF users[Owner(t)].is_email_verified
               THEN resp'.status = 200 /\ resp'.msg = "already_verified"
               ELSE resp'.status = 400 /\ resp'.msg = "invalid_or_expired"]_vars

C5_Witness ==
    /\ resp.op = "verify"
    /\ resp.req.token \in LiveTokens
    /\ tokens[resp.req.token].is_used
    /\ users[Owner(resp.req.token)].is_email_verified
    /\ resp.status = 200
    /\ resp.msg = "already_verified"

\* C6: e-mail verification with an unused, expired token answers 400 with the
\* 'token has expired' error and leaves the user's is_email_verified and the
\* token's is_used as they were.
C6_ExpiredTokenRefused ==
    [][\A t \in 1..MaxTokens :
         (/\ resp'.op = "verify"
          /\ resp'.req.token = t
          /\ t \in LiveTokens
          /\ ~tokens[t].is_used
          /\ now > tokens[t].expires_at)
         => (/\ resp'.status = 400
             /\ resp'.msg = "token_expired"
             /\ users' = users
             /\ tokens' = tokens)]_vars

C6_Witness ==
    /\ resp.op = "verify"
    /\ resp.msg = "token_expired"
    /\ resp.status = 400
    /\ now > tokens[resp.req.token].expires_at
    /\ ~tokens[resp.req.token].is_used
    /\ ~users[Owner(resp.req.token)].is_email_verified

\* C7: a registration with a valid e-mail and an unused e-mail and username
\* answers 201; a registration answered 201 has created exactly one user,
\* unverified, with a profile, has called the verification mail once, for that
\* user, and leaves the user with exactly one unused token.
C7_RegistrationCreatesUser ==
    [][(resp'.op = "register")
       => LET new == Len(users) + 1
              valid == /\ resp'.req.email # BadEmail
                       /\ UsersByEmail(resp'.req.email) = {}
                       /\ UsersByUsername(resp'.req.username) = {}
          IN /\ valid <=> resp'.status = 201
             /\ resp'.status = 201 =>
                  /\ Len(users') = new
                  /\ SubSeq(users', 1, Len(users)) = users
                  /\ users'[new].email = resp'.req.email
                  /\ users'[new].username = resp'.req.username
                  /\ ~users'[new].is_email_verified
                  /\ profiles' = profiles \cup {new}
                  /\ new \notin profiles
                  /\ resp'.sends = <<new>>
                  /\ Cardinality(UnusedIn(tokens', new)) = 1]_vars

C7_Witness ==
    /\ resp.op = "register"
    /\ resp.status = 201
    /\ resp.sends = <<Len(users)>>
    /\ ~users[Len(users)].is_email_verified
    /\ Len(users) \in profiles
    /\ Cardinality(UnusedTokens(Len(users))) = 1

\* a Google login with a verified identity token of a trusted issuer whose
\* e-mail matches no user
GoogleNewEmail(tok) ==
    /\ resp'.op = "google"
    /\ resp'.req.token = tok
    /\ tok.valid
    /\ tok.iss = "accounts.google.com"
    /\ UsersByEmail(tok.email) = {}

\* the login created exactly one user from the token, with a profile, and
\* answered 200 with a token pair for that user
GoogleCreated(tok) ==
    LET new == Len(users) + 1 IN
    /\ resp'.status = 200
    /\ resp'.jwt_user = new
    /\ Len(users') = new
    /\ SubSeq(users', 1, Len(users)) = users
    /\ users'[new].email = tok.email
    /\ users'[new].google_id = tok.sub
    /\ users'[new].is_email_verified
    /\ profiles' = profiles \cup {new}

\* C9: a Google login with a valid token whose e-mail matches no user answers
\* 200 with a token pair and creates exactly one user with that e-mail,
\* google_id = sub, is_email_verified, and a profile.
C9_GoogleCreatesUser ==
    [][\A tok \in GoogleTokens : GoogleNewEmail(tok) => GoogleCreated(tok)]_vars

\* C10: the user a Google login creates has the token's given_name and
\* family_name as first_name and last_name, stored and returned.
C10_GoogleNames ==
    [][\A tok \in GoogleTokens :
         (GoogleNewEmail(tok) /\ Len(users') = Len(users) + 1)
         => /\ users'[Len(users')].first_name = tok.given_name
            /\ users'[Len(users')].last_name = tok.family_name
            /\ resp'.body.first_name = tok.given_name
            /\ resp'.body.last_name = tok.family_name]_vars

\* a Google login with a verified identity token of a trusted issuer whose
\* e-mail is that of user u, who has no google_id
GoogleUnlinkedUser(tok, u) ==
    /\ resp'.op = "google"
    /\ resp'.req.token = tok
    /\ tok.valid
    /\ tok.iss = "accounts.google.com"
    /\ u \in UsersByEmail(tok.email)
    /\ users[u].google_id = ""

\* C11: a Google login with a valid token whose e-mail is that of a user
\* without google_id creates no user, sets the user's google_id to the
\* token's sub and is_email_verified to TRUE, and answers 200 with a token
\* pair for that user.
C11_GoogleLinksUser ==
    [][\A tok \in GoogleTokens : \A u \in UserIds :
         GoogleUnlinkedUser(tok, u)
         => /\ Len(users') = Len(users)
            /\ users'[u].google_id = tok.sub
            /\ users'[u].is_email_verified
            /\ resp'.status = 200
            /\ resp'.jwt_user = u]_vars

\* C12: a successful resend for an unverified user deletes every token issued
\* to the user before it and leaves the user exactly one unused token, the
\* new one; a deleted token stays deleted, and e-mail verification with it
\* answers 400 and changes nothing (checked under SpecApi).
C12_ResendInvalidatesTokens ==
    [][/\ \A u \in UserIds :
            (/\ resp'.op = "resend"
             /\ resp'.status = 200
             /\ resp'.req.email = users[u].email
             /\ ~users[u].is_email_verified)
            => /\ Len(tokens') = Len(tokens) + 1
               /\ \A t \in TokenIds : tokens[t].user = u => tokens'[t].deleted
               /\ UnusedIn(tokens', u) = {Len(tokens')}
       /\ \A t \in TokenIds :
            tokens[t].deleted
            => /\ tokens'[t].deleted
               /\ (resp'.op = "verify" /\ resp'.req.token = t)
                  => /\ resp'.status = 400
                     /\ users' = users
                     /\ tokens' = tokens]_vars

\* a token replaced by a resend has been tried, and refused, while the new
\* token is the user's only unused one
C12_Witness ==
    /\ resp.op = "verify"
    /\ resp.status = 400
    /\ resp.req.token \in TokenIds
    /\ tokens[resp.req.token].deleted
    /\ UnusedTokens(Owner(resp.req.token)) = {Len(tokens)}
    /\ ~users[Owner(resp.req.token)].is_email_verified

\* a verification request with token t has just been answered
Verifying(t) == resp'.op = "verify" /\ resp'.req.token = t

\* every token expires 24 hours after it was created
ExpiresAfterTokenHours ==
    \A t \in DOMAIN tokens :
        tokens[t].expires_at = tokens[t].created_at + TOKEN_HOURS

\* up to and including 24 hours after its creation an unused token is not
\* refused as expired: verification with it answers 200
AcceptedUntilDeadline ==
    \A t \in DOMAIN tokens :
        (/\ Verifying(t)
         /\ now <= tokens[t].created_at + TOKEN_HOURS
         /\ ~tokens[t].deleted
         /\ ~tokens[t].is_used)
        => (resp'.status = 200 /\ tokens'[t].is_used)

\* C20 as stated: a token created at time t expires at t + 24 hours; up to
\* and including that time it is not treated as expired, and at every later
\* time e-mail verification rejects it.
C20_Original ==
    /\ []ExpiresAfterTokenHours
    /\ [][AcceptedUntilDeadline]_vars
    /\ [][\A t \in DOMAIN tokens :
             (Verifying(t) /\ now > tokens[t].created_at + TOKEN_HOURS)
             => (/\ resp'.status = 400
                 /\ users' = users
                 /\ tokens' = tokens)]_vars

\* C20 as amended: a token created at time t expires at t + 24 hours; up to
\* and including that time an unused token is not treated as expired, and at
\* every later time e-mail verification with it changes nothing and rejects
\* it with 400 (an unused token as expired), except that a used token whose
\* user is verified is answered 200 'already verified' whatever the time.
C20_TokenLifetime ==
    /\ []ExpiresAfterTokenHours
    /\ [][AcceptedUntilDeadline]_vars
    /\ [][\A t \in DOMAIN tokens :
             (Verifying(t) /\ now > tokens[t].created_at + TOKEN_HOURS)
             => (/\ users' = users
                 /\ tokens' = tokens
                 /\ IF /\ ~tokens[t].deleted
                       /\ tokens[t].is_used
                       /\ users[Owner(t)].is_email_verified
                    THEN resp'.status = 200 /\ resp'.msg = "already_verified"
                    ELSE /\ resp'.status = 400
                         /\ (~tokens[t].deleted /\ ~tokens[t].is_used)
                            => resp'.msg = "token_expired")]_vars

\* a token was accepted exactly 24 hours after its creation
C20_Witness ==
    /\ resp.op = "verify"
    /\ resp.status = 200
    /\ resp.msg = "verified"
    /\ resp.req.token \in DOMAIN tokens
    /\ now = tokens[resp.req.token].created_at + TOKEN_HOURS
    /\ now = tokens[resp.req.token].expires_at

\* C21: every verification mail built for user u is addressed to u's e-mail
\* address, and its link carries a token that exists, is unused and belongs
\* to u.
C21_MailToUser ==
    [][\A i \in DOMAIN resp'.mails :
         LET u == resp'.sends[1]
             mail == resp'.mails[i]
         IN /\ mail.to = users'[u].email
            /\ mail.url_token \in DOMAIN tokens'
            /\ ~tokens'[mail.url_token].deleted
            /\ ~tokens'[mail.url_token].is_used
            /\ tokens'[mail.url_token].user = u]_vars

\* C23: a Google login answers with a token pair for an existing user only
\* when the user had no google_id, which is then set to the token's sub, or
\* when the user's google_id is the token's sub; a stored google_id is never
\* overwritten.
C23_GoogleSubMatches ==
    [][\A u \in UserIds :
         /\ users[u].google_id # "" => users'[u].google_id = users[u].google_id
         /\ (resp'.op = "google" /\ resp'.status = 200 /\ resp'.jwt_user = u)
            => /\ users[u].google_id \in {"", resp'.req.token.sub}
               /\ users'[u].google_id = resp'.req.token.sub]_vars

-----------------------------------------------------------------------------
(* Properties of resend requests served at the same time, checked under      *)
(* SpecRace                                                                  *)

\* no resend request is being served
Quiescent == \A w \in Workers : inflight[w].pc \in {"idle", "done"}

\* C22: whatever the interleaving of the resend requests for a user, once
\* they have all been answered the user has at most one unused token.
C22_AtMostOneUnusedToken ==
    Quiescent => \A u \in UserIds : Cardinality(UnusedTokens(u)) <= 1

-----------------------------------------------------------------------------
(* Properties of the post application *)

\* C3: an update of a post by a logged-in user who is not its author answers
\* 403 and leaves the post unchanged (checked under SpecPost).
C3_NonAuthorUpdateForbidden ==
    [][\A p \in 1..MaxPosts :
         (/\ resp'.op = "post_update"
          /\ resp'.req.post = p
          /\ p \in LivePosts
          /\ resp'.req.user \in UserIds
          /\ resp'.req.user # posts[p].author)
         => (resp'.status = 403 /\ posts' = posts)]_vars

\* C4: a step adds a post only as the 201 answer to a create request of a
\* logged-in user, and the post's author is that user, whatever author the
\* request body names (checked under SpecPost).
C4_AuthorIsRequester ==
    [][(Len(posts') > Len(posts) \/ (resp'.op = "post_create" /\ resp'.status = 201))
       => /\ resp'.op = "post_create"
          /\ resp'.status = 201
          /\ Len(posts') = Len(posts) + 1
          /\ resp'.body.id = Len(posts')
          /\ resp'.req.user \in UserIds
          /\ posts'[Len(posts')].author = resp'.req.user]_vars

C4_Witness ==
    /\ resp.op = "post_create"
    /\ resp.status = 201
    /\ resp.req.user = 1
    /\ resp.req.data["author"] = "bob"
    /\ posts[resp.body.id].author = 1

\* C8: a create request of content type 'post' is answered 201 exactly when
\* one of title, content, image and video is non-empty (checked under
\* SpecContent).
C8_PostNeedsOneField ==
    [][(/\ resp'.op = "post_create"
        /\ resp'.req.user \in UserIds
        /\ DataGet(resp'.req.data, "content_type", "post") = "post")
       => LET data == resp'.req.data IN
          resp'.status = 201
          <=> \/ Strip(DataGet(data, "title", "")) # ""
              \/ Strip(DataGet(data, "content", "")) # ""
              \/ Truthy(data, "image")
              \/ Truthy(data, "video")]_vars

-----------------------------------------------------------------------------
(* Properties of likes, shares and comments, checked under SpecSocial *)

\* the likes after user u toggled the like of post p
Toggle(ls, u, p) ==
    IF <<u, p>> \in ls THEN ls \ {<<u, p>>} ELSE ls \cup {<<u, p>>}

\* C13: a like request of user u on post p creates the like and reports
\* 'liked' when there was none, deletes it and reports 'unliked' when there
\* was one; likes_count is the number of likes of p after the request, and
\* two such requests in a row restore the likes.
C13_LikeToggles ==
    [][\A u \in UserIds : \A p \in LivePosts :
         (resp'.op = "like" /\ resp'.req.user = u /\ resp'.req.post = p)
         => /\ resp'.status = 200
            /\ resp'.msg = (IF <<u, p>> \in likes THEN "unliked" ELSE "liked")
            /\ likes' = Toggle(likes, u, p)
            /\ resp'.body.likes_count = likes_count(likes', p)
            /\ Toggle(likes', u, p) = likes]_vars

\* a like was taken back while another user's like of the post remains
C13_Witness ==
    /\ resp.op = "like"
    /\ resp.msg = "unliked"
    /\ <<resp.req.user, resp.req.post>> \notin likes
    /\ resp.body.likes_count = 1
    /\ likes_count(likes, resp.req.post) = 1

\* a like, share or comment-create request that names post key pk
Interaction(pk) ==
    /\ resp'.op \in {"like", "share", "comment"}
    /\ resp'.req.post = pk

\* no post has the key: it was never given out, or its post was deleted
NoSuchPost(pk) == pk \notin PostIds \/ posts[pk].deleted

\* C14 as stated: a like, share or comment-create request of a logged-in user
\* naming a post that does not exist answers 404 and creates no Like, Share
\* or Comment row.
C14_Original ==
    [][\A pk \in PostKeys :
         (Interaction(pk) /\ NoSuchPost(pk) /\ resp'.req.user \in UserIds)
         => (resp'.status = 404 /\ UNCHANGED socialvars)]_vars

\* C14 as amended: a like, share or comment-create request naming a post that
\* does not exist creates no row; for a logged-in user the answer is 404,
\* except that a comment whose body is invalid (blank text, or a parent that
\* is not a comment) is answered 400: the body is validated before the post
\* is looked up.
C14_MissingPostCreatesNothing ==
    [][\A pk \in PostKeys :
         (Interaction(pk) /\ NoSuchPost(pk))
         => /\ UNCHANGED socialvars
            /\ resp'.req.user \in UserIds
               => resp'.status =
                     (IF /\ resp'.op = "comment"
                         /\ ~CommentSerializer_is_valid(resp'.req.text,
                                                        resp'.req.parent)
                      THEN 400 ELSE 404)]_vars

\* a valid comment was sent to a post that had been deleted, and refused
C14_Witness ==
    /\ resp.op = "comment"
    /\ resp.status = 404
    /\ resp.req.post \in PostIds
    /\ posts[resp.req.post].deleted
    /\ resp.req.parent = 0
    /\ Strip(resp.req.text) # ""

\* every reply is on the post of the comment it answers
RepliesOnParentsPost ==
    \A c \in LiveComments :
        comments[c].parent # 0
        => /\ comments[c].parent \in LiveComments
           /\ comments[comments[c].parent].post = comments[c].post

\* the comment-create request of a logged-in user to an existing post that
\* names as parent a comment of another post
ReplyAcrossPosts ==
    /\ resp'.op = "comment"
    /\ resp'.req.user \in UserIds
    /\ resp'.req.post \in PostIds
    /\ ~posts[resp'.req.post].deleted
    /\ resp'.req.parent \in DOMAIN comments
    /\ ~comments[resp'.req.parent].deleted
    /\ comments[resp'.req.parent].post # resp'.req.post

-----------------------------------------------------------------------------
(* Properties of content types, checked under SpecContent *)

\* the create request of a logged-in user that was answered 201
Created(data) ==
    /\ resp'.op = "post_create"
    /\ resp'.status = 201
    /\ resp'.req.data = data
    /\ Len(posts') = Len(posts) + 1

TypeRequirement(content_type, f) ==
    LET has(k) == f[k] # Absent /\ f[k] # ""
        text(k) == IF f[k] = Absent THEN "" ELSE Strip(f[k])
    IN CASE content_type = "image" -> has("image") /\ text("title") # ""
         [] content_type = "video" -> has("video") \/ has("image")
         [] content_type = "workflow" ->
                has("workflow_steps") /\ text("title") # ""
         [] content_type = "story" ->
                text("title") # "" /\ Len(text("content")) >= 100
         [] OTHER -> TRUE

\* C16: every request the post serializers accept, on create and on update,
\* carries what the content type it is stored with requires, and so does
\* every post: an image and a title for 'image', a video or an image for
\* 'video', workflow steps and a title for 'workflow', a title and 100
\* characters of content for 'story'.
C16_ContentTypeRequirements ==
    /\ \A data \in ContentBodies, partial \in BOOLEAN :
         \A serializer \in {SerializerFor("POST", data), "PostSerializer"} :
            is_valid(serializer, data, partial)
            => TypeRequirement(validated_data(serializer, data).content_type,
                               data)
    /\ \A p \in PostIds : TypeRequirement(posts[p].content_type, posts[p])

\* an update was accepted that leaves the post a story
C16_Witness ==
    /\ resp.op = "post_update"
    /\ resp.status = 200
    /\ posts[resp.req.post].content_type = "story"
    /\ Len(posts[resp.req.post].content) >= 100

-----------------------------------------------------------------------------
(* Properties of the bulk endpoints, checked under SpecBulk *)

\* C17: every post whose status is 'published' has a published_at: it is set
\* when the status becomes 'published', on create, on update and through
\* bulk_update_status.
C17_PublishedHasDate ==
    \A p \in PostIds :
        posts[p].status = "published" => posts[p].published_at # NoTime

\* the posts a bulk request of this user names and owns
NamedAndOwned(req) ==
    {p \in PostIds : /\ ~posts[p].deleted
                     /\ p \in req.post_ids
                     /\ posts[p].author = req.user}

\* C18: bulk_delete_posts of an authenticated user deletes exactly the posts
\* named in post_ids that the user wrote, leaves every other post (those of
\* other users that post_ids names included) as it was and answers with
\* their number in deleted_count; with post_ids empty or missing it answers
\* 400 and deletes nothing.
C18_BulkDeleteOwnPosts ==
    [][ (resp'.op = "bulk_delete" /\ IsAuthenticated(resp'.req.user))
        => LET req == resp'.req
               gone == NamedAndOwned(req)
           IN IF req.post_ids = {}
              THEN resp'.status = 400 /\ UNCHANGED postvars
              ELSE /\ resp'.status = 200
                   /\ resp'.body = [deleted_count |-> Cardinality(gone)]
                   /\ DOMAIN posts' = DOMAIN posts
                   /\ \A p \in PostIds :
                         IF p \in gone THEN posts'[p].deleted
                         ELSE posts'[p] = posts[p] ]_vars

\* ann has bulk-deleted with both posts named: hers is gone, bob's remains
C18_Witness ==
    /\ resp.op = "bulk_delete"
    /\ resp.req = [user |-> 1, post_ids |-> PostKeys]
    /\ resp.status = 200
    /\ resp.body = [deleted_count |-> 1]
    /\ posts[1].deleted
    /\ ~posts[2].deleted /\ posts[2].author = 2

=============================================================================
